---- MODULE Spec2Model ----
(***************************************************************************)
(* Model of the elastinats pipeline (main.go, elasticsearch.go):           *)
(*   consumeForever  - one receive loop per subscribed subject             *)
(*   conversion task - the goroutine spawned for every received message    *)
(*   batchAndSend    - the aggregator loop (select on channel / time.After)*)
(*   sendToES        - one goroutine per dispatched batch                  *)
(*   reconnect       - the bounded reconnect loop                          *)
(* Time is discrete: one Tick is one second.                               *)
(***************************************************************************)
EXTENDS Integers, Sequences, FiniteSets, TLC

\* ---- bounds of the model ------------------------------------------------
MaxBatchSize == 2      \* config.BatchSize ranges over 0..MaxBatchSize
MaxReconnect == 1      \* config.ReconnectAttempts ranges over 0..MaxReconnect
MaxMsgs == 2           \* messages the bus delivers in a run
MaxDispatches == 2     \* sendToES goroutines spawned in a run
MaxFails == 2          \* failed submits in a run

BatchTimeoutSec == 1        \* config.BatchTimeoutSec, in seconds
Consumers == {"c1", "c2"}   \* config.Subjects
Docs == 1..MaxMsgs          \* a document is named by its message's number

VARIABLES
    batchSize,          \* config.BatchSize
    reconnectAttempts,  \* config.ReconnectAttempts
    proc,               \* "running", "exited" (log.Fatal), "crashed" (panic), "returned" (run returned)
    consumer,           \* consumer -> "receiving" | "terminated"
    received,           \* number of messages NextMsg has returned
    tasks,              \* conversion tasks blocked before / on  toSend <- payload
    nilTask,            \* TRUE: a conversion task spawned with m = nil is pending
    batch,              \* the aggregator's open batch
    elapsed,            \* seconds since the current select (its time.After) began
    sinceExpiry,        \* seconds since the last timeout flush (or the start)
    dispatches,         \* the sendToES goroutines, in spawn order
    natsConsumed,       \* counters.natsConsumed
    esSent,             \* counters.esSent
    task                \* one conversion task, step by step (main.go 129-136)

vars == <<batchSize, reconnectAttempts, proc, consumer, received,
          tasks, nilTask, batch, elapsed, sinceExpiry, dispatches,
          natsConsumed, esSent, task>>

config == <<batchSize, reconnectAttempts>>
bus == <<consumer, received, tasks, nilTask>>
aggregator == <<batch, elapsed, sinceExpiry>>

Min(a, b) == IF a < b THEN a ELSE b

\* ---- sendToES goroutine state -------------------------------------------
\* trigger    : which select case spawned it
\* docs       : the batch slice it was handed
\* pc         : "start" | "index" | "inc" | "done" | "fatal"
\* idx        : position of the range loop (1-based)
\* tmp        : the value of stats.esSent read by stats.esSent++ (0 when not in use)
\* resend     : the resend flag of lines 125-127, 143: the current document
\*              was rejected and is about to be submitted again
\* fails      : submits (indexer.Index) that returned an error
\* reconnects : calls of reconnect
\* attempts   : connectToES calls made inside reconnect
\* conns      : connectToES calls in total
\* session    : "none" | "started" | "stopped"  (the bulk indexer)
\* flushed    : indexer.Flush() has run
\* client     : the connection held by the variable client (connections are
\*              numbered in the order connectToES makes them; 0: none)
\* indexer    : the connection the bulk indexer was made from (line 112)
\* accepted   : the documents indexer.Index has accepted, in order
NewDispatch(trigger, docs) ==
    [trigger |-> trigger, docs |-> docs, pc |-> "start", idx |-> 1, tmp |-> 0,
     resend |-> FALSE, fails |-> 0, reconnects |-> 0, attempts |-> 0, conns |-> 0,
     session |-> "none", flushed |-> FALSE, client |-> 0, indexer |-> 0,
     accepted |-> <<>>]

\* the pipeline after run has started the aggregator and the consumers
PipeInit ==
    /\ batchSize \in 0..MaxBatchSize
    /\ reconnectAttempts \in 0..MaxReconnect
    /\ proc = "running"
    /\ consumer = [c \in Consumers |-> "receiving"]
    /\ received = 0
    /\ tasks = {}
    /\ nilTask = FALSE
    /\ batch = <<>>
    /\ elapsed = 0
    /\ sinceExpiry = 0
    /\ dispatches = <<>>
    /\ natsConsumed = 0
    /\ esSent = 0

\* ---- the conversion task (main.go 129-136, elasticsearch.go 12-26) -------
rawMsgKey == "@raw_msg"
timestampKey == "@timestamp"
sourceKey == "@source"
Reserved == {rawMsgKey, timestampKey, sourceKey}

\* top-level field names and decoded values of the message bodies tried
Keys == Reserved \cup {"user"}
Vals == {"x", "y"}
Subjects == {"events", "logs"}

\* What the bytes of a message are to encoding/json: an object with
\* top-level fields, the literal null, another valid value (scalar, array),
\* or bytes that are not JSON.
NoFields == [k \in {} |-> "x"]
ObjectBodies ==
    UNION { { [kind |-> "object", fields |-> f] : f \in [S -> Vals] } :
            S \in SUBSET Keys }
Bodies ==
    ObjectBodies \cup
    { [kind |-> k, fields |-> NoFields] :
        k \in {"null", "scalar", "array", "invalid"} }

\* string(m.Data) and time.Now().Format(time.RFC3339)
Text(body) == "<" \o body.kind \o " bytes>"
Now == "<now>"

\* elasticsearch.go 20-26
newPayload(msg, source) ==
    [k \in Reserved |->
        IF k = rawMsgKey THEN msg ELSE IF k = sourceKey THEN source ELSE Now]

\* json.Unmarshal returns an error for these bytes
UnmarshalErr(body) == body.kind \in {"scalar", "array", "invalid"}

\* a field the map already holds keeps its value
Unmarshal_ReservedWins(body, p) ==
    CASE body.kind = "object" ->
            [k \in DOMAIN p \cup DOMAIN body.fields |->
                IF k \in DOMAIN p THEN p[k] ELSE body.fields[k]]
      [] body.kind = "null" -> NoFields
      [] OTHER -> p

\* json.Unmarshal(m.Data, payload) with payload a pointer to a map
\* (main.go 133): an object stores each of its fields into the existing
\* map, the literal null sets the map to nil, and a syntax error or a value
\* of another type leaves the map as it was.
Unmarshal(body, p) ==
    CASE body.kind = "object" ->
            [k \in DOMAIN p \cup DOMAIN body.fields |->
                IF k \in DOMAIN body.fields THEN body.fields[k] ELSE p[k]]
      [] body.kind = "null" -> NoFields
      [] OTHER -> p

IdleTask ==
    [pc |-> "idle", subject |-> "events",
     body |-> [kind |-> "null", fields |-> NoFields], payload |-> NoFields]

Init == PipeInit /\ task = IdleTask

\* a message has been received and its conversion goroutine spawned
BuildInit ==
    /\ PipeInit
    /\ task \in { [pc |-> "spawned", subject |-> s, body |-> b,
                    payload |-> NoFields] : s \in Subjects, b \in Bodies }

\* main.go 130
TaskBuild ==
    /\ task.pc = "spawned"
    /\ task' = [task EXCEPT !.pc = "built",
                            !.payload = newPayload(Text(task.body), task.subject)]
    /\ UNCHANGED <<config, proc, bus, aggregator, dispatches, natsConsumed, esSent>>

\* main.go 133; the error is discarded
TaskDecode ==
    /\ task.pc = "built"
    /\ task' = [task EXCEPT !.pc = "decoded",
                            !.payload = Unmarshal(task.body, task.payload)]
    /\ UNCHANGED <<config, proc, bus, aggregator, dispatches, natsConsumed, esSent>>

\* main.go 135: the document goes on the ingress channel
TaskSend ==
    /\ task.pc = "decoded"
    /\ task' = [task EXCEPT !.pc = "sent"]
    /\ UNCHANGED <<config, proc, bus, aggregator, dispatches, natsConsumed, esSent>>

BuildNext == TaskBuild \/ TaskDecode \/ TaskSend

BuildSpec == BuildInit /\ [][BuildNext]_vars

\* ---- consumeForever (main.go 116-138) -----------------------------------
\* the loop builds and sends the document itself (no go statement), so it
\* cannot receive while an earlier document waits on the channel
ReceiveMsg_Blocking(c) ==
    /\ proc = "running"
    /\ consumer[c] = "receiving"
    /\ received < MaxMsgs
    /\ tasks = {}
    /\ received' = received + 1
    /\ tasks' = tasks \cup {received + 1}
    /\ UNCHANGED <<config, proc, consumer, nilTask, aggregator, dispatches,
                   natsConsumed, esSent>>
    /\ UNCHANGED task

\* NextMsg returned a message: the goroutine of lines 129-136 is spawned.
ReceiveMsg(c) ==
    /\ proc = "running"
    /\ consumer[c] = "receiving"
    /\ received < MaxMsgs
    /\ received' = received + 1
    /\ tasks' = tasks \cup {received + 1}
    /\ UNCHANGED <<config, proc, consumer, nilTask, aggregator, dispatches,
                   natsConsumed, esSent>>
    /\ UNCHANGED task

\* NextMsg returned nats.ErrTimeout: the inner test of line 120 is false, no
\* return and no continue, so control falls through to line 129 with m = nil.
ReceiveTimeout(c) ==
    /\ proc = "running"
    /\ consumer[c] = "receiving"
    /\ ~nilTask
    /\ nilTask' = TRUE
    /\ UNCHANGED <<config, proc, consumer, received, tasks, aggregator,
                   dispatches, natsConsumed, esSent>>
    /\ UNCHANGED task

\* NextMsg returned another error: return err (line 121).
ReceiveError(c) ==
    /\ proc = "running"
    /\ consumer[c] = "receiving"
    /\ consumer' = [consumer EXCEPT ![c] = "terminated"]
    /\ UNCHANGED <<config, proc, received, tasks, nilTask, aggregator,
                   dispatches, natsConsumed, esSent>>
    /\ UNCHANGED task

\* The goroutine spawned with m = nil evaluates m.Data (line 130): a nil
\* pointer dereference, which panics and takes the process down.
TaskPanic ==
    /\ proc = "running"
    /\ nilTask
    /\ proc' = "crashed"
    /\ UNCHANGED <<config, bus, aggregator, dispatches, natsConsumed, esSent>>
    /\ UNCHANGED task

\* run returns as soon as one consumer has finished
RunReturns_Any ==
    /\ proc = "running"
    /\ \E c \in Consumers : consumer[c] = "terminated"
    /\ proc' = "returned"
    /\ UNCHANGED <<config, bus, aggregator, dispatches, natsConsumed, esSent>>
    /\ UNCHANGED task

\* run drains the pipeline before it returns
RunReturns_Drains ==
    /\ proc = "running"
    /\ \A c \in Consumers : consumer[c] = "terminated"
    /\ tasks = {}
    /\ batch = <<>>
    /\ \A i \in DOMAIN dispatches : dispatches[i].pc = "done"
    /\ proc' = "returned"
    /\ UNCHANGED <<config, bus, aggregator, dispatches, natsConsumed, esSent>>
    /\ UNCHANGED task

\* run (main.go 112-113): wg.Wait() returns once every consumer has finished.
RunReturns ==
    /\ proc = "running"
    /\ \A c \in Consumers : consumer[c] = "terminated"
    /\ proc' = "returned"
    /\ UNCHANGED <<config, bus, aggregator, dispatches, natsConsumed, esSent>>
    /\ UNCHANGED task

\* ---- batchAndSend (elasticsearch.go 66-95) -------------------------------
\* the size test with > for >=
SizeReached_Strict(b, size) == Len(b) > size

\* line 84: len(batch) >= config.BatchSize
SizeReached(b, size) == Len(b) >= size

\* the open batch is kept after a size flush
AfterSizeFlush_Keep(b) == b

\* line 87: batch = make([]*payload, 0, config.BatchSize)
AfterSizeFlush(b) == <<>>

\* the open batch is kept after a timeout flush
AfterTimeoutFlush_Keep(b) == b

\* line 92: batch = make([]*payload, 0, config.BatchSize)
AfterTimeoutFlush(b) == <<>>

\* one timer across iterations: a receive leaves it running
TimerAfterReceive_Ambient(e) == e

\* line 89: time.After(...) is evaluated anew each time the for loop enters
\* the select, so the iteration that follows a receive waits on a new timer.
TimerAfterReceive(e) == 0

\* sendToES is called, not spawned: the loop takes no document while a
\* dispatch is in progress
AggReceive_Waits(t) ==
    /\ proc = "running"
    /\ t \in tasks
    /\ \A i \in DOMAIN dispatches : dispatches[i].pc = "done"
    /\ LET b == Append(batch, t) IN
         IF SizeReached(b, batchSize)
         THEN /\ Len(dispatches) < MaxDispatches
              /\ dispatches' = Append(dispatches, NewDispatch("size", b))
              /\ batch' = AfterSizeFlush(b)
         ELSE /\ batch' = b
              /\ UNCHANGED dispatches
    /\ tasks' = tasks \ {t}
    /\ elapsed' = TimerAfterReceive(elapsed)
    /\ UNCHANGED <<config, proc, consumer, received, nilTask, sinceExpiry,
                   natsConsumed, esSent>>
    /\ UNCHANGED task

\* case in := <-incoming (82-88), the rendezvous with the conversion task t
\* that is blocked on  toSend <- payload  (main.go 135).
AggReceive(t) ==
    /\ proc = "running"
    /\ t \in tasks
    /\ LET b == Append(batch, t) IN
         IF SizeReached(b, batchSize)
         THEN /\ Len(dispatches) < MaxDispatches
              /\ dispatches' = Append(dispatches, NewDispatch("size", b))
              /\ batch' = AfterSizeFlush(b)
         ELSE /\ batch' = b
              /\ UNCHANGED dispatches
    /\ tasks' = tasks \ {t}
    /\ elapsed' = TimerAfterReceive(elapsed)
    /\ UNCHANGED <<config, proc, consumer, received, nilTask, sinceExpiry,
                   natsConsumed, esSent>>
    /\ UNCHANGED task

\* case <-time.After(BatchTimeoutSec seconds) (89-92)
AggTimeout ==
    /\ proc = "running"
    /\ elapsed >= BatchTimeoutSec
    /\ Len(dispatches) < MaxDispatches
    /\ dispatches' = Append(dispatches, NewDispatch("timeout", batch))
    /\ batch' = AfterTimeoutFlush(batch)
    /\ elapsed' = 0
    /\ sinceExpiry' = 0
    /\ UNCHANGED <<config, proc, bus, natsConsumed, esSent>>
    /\ UNCHANGED task

\* One second passes. The timer of the pending select is due after
\* BatchTimeoutSec seconds; time does not pass beyond a due timer.
Tick ==
    /\ proc = "running"
    /\ elapsed < BatchTimeoutSec
    /\ elapsed' = elapsed + 1
    /\ sinceExpiry' = Min(sinceExpiry + 1, BatchTimeoutSec + 1)
    /\ UNCHANGED <<config, proc, bus, batch, dispatches, natsConsumed, esSent>>
    /\ UNCHANGED task

\* ---- connectToES (elasticsearch.go 39-64) -------------------------------
\* Builds the connection object; line 63 returns a nil error on every path.
connectToES == [err |-> FALSE]

\* ---- reconnect (elasticsearch.go 152-166) -------------------------------
\* The for loop from  times  on; ok = FALSE is the log.Fatalf of line 164.
RECURSIVE reconnectFrom(_, _)
reconnectFrom(times, budget) ==
    IF times < budget
    THEN IF ~connectToES.err
         THEN [ok |-> TRUE, tried |-> times + 1]
         ELSE reconnectFrom(times + 1, budget)
    ELSE [ok |-> FALSE, tried |-> times]

reconnect(budget) == reconnectFrom(0, budget)

\* ---- sendToES (elasticsearch.go 97-150) ---------------------------------
Upd(i, r) == [dispatches EXCEPT ![i] = r]

RECURSIVE SumFails(_)
SumFails(n) == IF n = 0 THEN 0 ELSE dispatches[n].fails + SumFails(n - 1)

\* submits the backend has rejected so far, over all dispatches
FailedSubmits == SumFails(Len(dispatches))

\* the early return is never taken
IsNoOp_Never(docs) == FALSE

\* line 98: len(batch) == 0
IsNoOp(docs) == Len(docs) = 0

\* lines 98-121: the early return, or connect, start the indexer, defer.
SendStart(i) ==
    /\ proc = "running"
    /\ i \in DOMAIN dispatches
    /\ dispatches[i].pc = "start"
    /\ LET d == dispatches[i] IN
         IF IsNoOp(d.docs)
         THEN /\ dispatches' = Upd(i, [d EXCEPT !.pc = "done"])
              /\ UNCHANGED proc
         ELSE IF connectToES.err
         THEN /\ dispatches' = Upd(i, [d EXCEPT !.pc = "fatal", !.conns = 1])
              /\ proc' = "exited"
         ELSE /\ dispatches' = Upd(i, [d EXCEPT !.pc = "index", !.conns = 1,
                                                !.session = "started",
                                                !.client = 1, !.indexer = 1])
              /\ UNCHANGED proc
    /\ UNCHANGED <<config, bus, aggregator, natsConsumed, esSent>>
    /\ UNCHANGED task

\* lines 131-146, err == nil: indexer.Index accepted the document and
\* stats.esSent++ has read the counter (the increment is not atomic).
SubmitOk(i) ==
    /\ proc = "running"
    /\ i \in DOMAIN dispatches
    /\ dispatches[i].pc = "index"
    /\ LET d == dispatches[i] IN
         dispatches' = Upd(i, [d EXCEPT !.pc = "inc", !.tmp = esSent,
                                        !.resend = FALSE,
                                        !.accepted = Append(@, d.docs[d.idx])])
    /\ UNCHANGED <<config, proc, bus, aggregator, natsConsumed, esSent>>
    /\ UNCHANGED task

\* line 146, the write of stats.esSent++, then the next document; after the
\* last one the function returns and the deferred Flush/Stop (117-121) run.
IncWrite(i) ==
    /\ proc = "running"
    /\ i \in DOMAIN dispatches
    /\ dispatches[i].pc = "inc"
    /\ LET d == dispatches[i] IN
         /\ esSent' = d.tmp + 1
         /\ dispatches' = Upd(i,
              IF d.idx = Len(d.docs)
              THEN [d EXCEPT !.pc = "done", !.tmp = 0, !.flushed = TRUE,
                             !.session = "stopped"]
              ELSE [d EXCEPT !.pc = "index", !.tmp = 0, !.idx = d.idx + 1])
    /\ UNCHANGED <<config, proc, bus, aggregator, natsConsumed>>
    /\ UNCHANGED task

\* the failure path does not set resend: the loop goes on to the next document
SubmitFail_Skip(i) ==
    /\ proc = "running"
    /\ i \in DOMAIN dispatches
    /\ dispatches[i].pc = "index"
    /\ LET d == dispatches[i]
           e == [d EXCEPT !.fails = d.fails + 1,
                          !.reconnects = d.reconnects + 1]
       IN dispatches' = Upd(i,
              IF d.idx = Len(d.docs)
              THEN [e EXCEPT !.pc = "done", !.flushed = TRUE,
                             !.session = "stopped"]
              ELSE [e EXCEPT !.idx = d.idx + 1])
    /\ UNCHANGED <<config, proc, bus, aggregator, natsConsumed, esSent>>
    /\ UNCHANGED task

\* the failure path also counts the document as sent
SubmitFail_Counting(i) ==
    /\ proc = "running"
    /\ i \in DOMAIN dispatches
    /\ dispatches[i].pc = "index"
    /\ dispatches' = [dispatches EXCEPT ![i].resend = TRUE,
                                        ![i].fails = @ + 1,
                                        ![i].reconnects = @ + 1]
    /\ esSent' = esSent + 1
    /\ UNCHANGED <<config, proc, bus, aggregator, natsConsumed>>
    /\ UNCHANGED task

\* lines 140-143, err != nil: warn, client = reconnect(log, config), resend.
\* When reconnect runs out of attempts, log.Fatalf exits the process
\* (os.Exit: deferred functions do not run).
SubmitFail(i) ==
    /\ proc = "running"
    /\ i \in DOMAIN dispatches
    /\ dispatches[i].pc = "index"
    /\ FailedSubmits < MaxFails
    /\ LET d == dispatches[i]
           r == reconnect(reconnectAttempts)
           e == [d EXCEPT !.resend = TRUE,
                          !.fails = d.fails + 1,
                          !.reconnects = d.reconnects + 1,
                          !.attempts = d.attempts + r.tried,
                          !.conns = d.conns + r.tried]
       IN IF r.ok
          THEN /\ dispatches' = Upd(i, [e EXCEPT !.client = e.conns])
               /\ UNCHANGED proc
          ELSE /\ dispatches' = Upd(i, [e EXCEPT !.pc = "fatal"])
               /\ proc' = "exited"
    /\ UNCHANGED <<config, bus, aggregator, natsConsumed, esSent>>
    /\ UNCHANGED task

\* ---- the system ---------------------------------------------------------
Slots == 1..MaxDispatches

Next ==
    \/ \E c \in Consumers : ReceiveMsg(c)
    \/ \E c \in Consumers : ReceiveTimeout(c)
    \/ \E c \in Consumers : ReceiveError(c)
    \/ TaskPanic
    \/ RunReturns
    \/ \E t \in Docs : AggReceive(t)
    \/ AggTimeout
    \/ Tick
    \/ \E i \in Slots : SendStart(i)
    \/ \E i \in Slots : SubmitOk(i)
    \/ \E i \in Slots : IncWrite(i)
    \/ \E i \in Slots : SubmitFail(i)

Spec == Init /\ [][Next]_vars

\* The select of batchAndSend takes a sender that stays blocked on the
\* channel: the receive case is ready whenever a conversion task waits.
\* The goroutine of run is scheduled once wg.Wait() can return.
FairSpec ==
    /\ Spec
    /\ \A t \in Docs : WF_vars(AggReceive(t))
    /\ WF_vars(RunReturns)

\* ---- properties ---------------------------------------------------------
Last(q) == q[Len(q)]

\* the step is a receive of the aggregator: a conversion task completed its send
ReceiveStep == tasks' # tasks /\ tasks' \subseteq tasks

\* the step spawned a sendToES goroutine from the timeout case
TimeoutFlushStep ==
    /\ Len(dispatches') = Len(dispatches) + 1
    /\ Last(dispatches').trigger = "timeout"

\* the step spawned a sendToES goroutine from the size test
SizeFlushStep ==
    /\ Len(dispatches') = Len(dispatches) + 1
    /\ Last(dispatches').trigger = "size"

\* C1: a receive that times out spawns no conversion task and does not crash
\* the process; the consumer just receives again.
C1_TimeoutSpawnsNothing == ~nilTask /\ proc # "crashed"

\* a rejected document is waiting to be submitted again
RetryInFlight ==
    \E i \in DOMAIN dispatches :
        dispatches[i].resend /\ dispatches[i].pc = "index"

\* C2: whenever no submission retry is in flight, sent <= consumed.
C2_SentLeConsumed == ~RetryInFlight => esSent <= natsConsumed

\* C3 as stated, for every configured batchSize: a size-triggered batch has
\* 1 <= len <= batchSize, a timeout-triggered batch has 0 <= len < batchSize.
C3_BatchBoundsAnySize ==
    \A i \in DOMAIN dispatches :
        LET d == dispatches[i] IN
        /\ d.trigger = "size" => 1 <= Len(d.docs) /\ Len(d.docs) <= batchSize
        /\ d.trigger = "timeout" => 0 <= Len(d.docs) /\ Len(d.docs) < batchSize

\* C3 (amended): for batchSize >= 1 a size-triggered batch has
\* 1 <= len <= batchSize and a timeout-triggered batch has 0 <= len < batchSize;
\* for batchSize <= 0 a size-triggered batch holds exactly one document and a
\* timeout-triggered batch is empty.
C3_BatchBounds ==
    \A i \in DOMAIN dispatches :
        LET d == dispatches[i] IN
        IF batchSize >= 1
        THEN /\ d.trigger = "size" => 1 <= Len(d.docs) /\ Len(d.docs) <= batchSize
             /\ d.trigger = "timeout" => 0 <= Len(d.docs) /\ Len(d.docs) < batchSize
        ELSE /\ d.trigger = "size" => Len(d.docs) = 1
             /\ d.trigger = "timeout" => Len(d.docs) = 0

\* a size-triggered batch of batchSize = 2 documents has been dispatched, and
\* a timeout-triggered batch as well
C3_Witness ==
    /\ batchSize = 2
    /\ \E i \in DOMAIN dispatches :
          dispatches[i].trigger = "size" /\ Len(dispatches[i].docs) = 2
    /\ \E j \in DOMAIN dispatches : dispatches[j].trigger = "timeout"

\* the backend has accepted no submit so far
NoSubmitAccepted ==
    \A i \in DOMAIN dispatches :
        LET d == dispatches[i] IN
        d.idx = 1 /\ d.pc # "inc" /\ (d.pc = "done" => d.docs = <<>>)

\* C4: while the backend rejects every submit, a dispatch makes at most
\* reconnectAttempts reconnect attempts (then the process terminates).
C4_BudgetBoundsRetries ==
    NoSubmitAccepted =>
        \A i \in DOMAIN dispatches : dispatches[i].attempts <= reconnectAttempts

\* C5: a dispatch that started its bulk session has flushed and stopped it
\* when it ends, also when it ends in the fatal exit of reconnect.
C5_FlushOnEveryExit ==
    \A i \in DOMAIN dispatches :
        LET d == dispatches[i] IN
        (d.session # "none" /\ d.pc \in {"done", "fatal"})
            => (d.flushed /\ d.session = "stopped")

C7_TimeoutFlushesOpenBatch ==
    [][ ( /\ Len(batch) >= 1
          /\ Len(batch) < batchSize
          /\ tasks' = tasks
          /\ <<batch, dispatches>>' # <<batch, dispatches>>
          /\ \A i \in DOMAIN dispatches : dispatches'[i] = dispatches[i] )
        => ( /\ elapsed = BatchTimeoutSec
             /\ TimeoutFlushStep
             /\ Last(dispatches').docs = batch
             /\ Last(dispatches').pc = "start"
             /\ batch' = <<>> ) ]_vars

\* a timeout flush has just handed over a batch of 0 < n < batchSize documents
C7_Witness ==
    /\ dispatches # <<>>
    /\ Last(dispatches).trigger = "timeout"
    /\ Last(dispatches).pc = "start"
    /\ Len(Last(dispatches).docs) >= 1
    /\ Len(Last(dispatches).docs) < batchSize
    /\ batch = <<>>
    /\ elapsed = 0

\* C8 as stated, its last part: the open batch never holds batchSize or more
\* documents at the start of a loop iteration.
C8_OpenBatchBelowSize == Len(batch) < batchSize

\* C8 (amended): an append that brings the open batch to batchSize documents
\* (or beyond) dispatches it in the same iteration as a size flush and leaves
\* an empty open batch; so for batchSize >= 1 the open batch holds fewer than
\* batchSize documents at the start of every iteration, and for
\* batchSize <= 0 it is empty there.
C8_SizeFlushInSameIteration ==
    /\ [](IF batchSize >= 1 THEN Len(batch) < batchSize ELSE batch = <<>>)
    /\ [][ (ReceiveStep /\ Len(batch) + 1 >= batchSize)
           => ( /\ SizeFlushStep
                /\ Last(dispatches').docs =
                       Append(batch, CHOOSE t \in tasks : t \notin tasks')
                /\ batch' = <<>>
                /\ sinceExpiry' = sinceExpiry ) ]_vars

\* a size flush of batchSize = 2 documents has just happened
C8_Witness ==
    /\ batchSize = 2
    /\ dispatches # <<>>
    /\ Last(dispatches).trigger = "size"
    /\ Last(dispatches).pc = "start"
    /\ Len(Last(dispatches).docs) = 2
    /\ batch = <<>>

\* dispatch i has begun to submit documents
Submitting(i) == dispatches[i].docs # <<>> /\ dispatches[i].pc # "start"

\* dispatch i is the only one that has begun to submit
Alone(i) ==
    /\ Submitting(i)
    /\ \A j \in DOMAIN dispatches : j # i => ~Submitting(j)

\* C9: in every dispatch each failed submit has made exactly one reconnect
\* call; and for a single dispatch sent counts exactly the accepted submits:
\* the documents before the current one while it runs (whatever number of
\* rejections), all k documents once it has completed.
C9_SentCountsAcceptedOnly ==
    \A i \in DOMAIN dispatches :
        LET d == dispatches[i] IN
        /\ d.reconnects = d.fails
        /\ Alone(i) =>
              esSent = (IF d.pc = "done" THEN Len(d.docs) ELSE d.idx - 1)

\* a single dispatch of k = 2 documents completed after one rejection
C9_Witness ==
    \E i \in DOMAIN dispatches :
        LET d == dispatches[i] IN
        /\ Alone(i)
        /\ d.pc = "done"
        /\ Len(d.docs) = 2
        /\ d.fails = 1
        /\ d.reconnects = 1
        /\ esSent = 2

\* C10: the sendToES of an empty batch only returns: it opens no connection,
\* starts no session, submits nothing, and leaves the counters and every
\* other dispatch as they were, however many empty dispatches there are.
C10_EmptyDispatchIsNoOp ==
    [][ \A i \in DOMAIN dispatches :
          (dispatches[i].docs = <<>> /\ dispatches'[i] # dispatches[i])
          => ( /\ dispatches'[i] = [dispatches[i] EXCEPT !.pc = "done"]
               /\ dispatches'[i].conns = 0
               /\ dispatches'[i].session = "none"
               /\ dispatches'[i].idx = 1
               /\ dispatches'[i].fails = 0
               /\ esSent' = esSent
               /\ natsConsumed' = natsConsumed
               /\ \A j \in DOMAIN dispatches :
                     j # i => dispatches'[j] = dispatches[j] ) ]_vars

\* two empty batches have been dispatched and both dispatches have returned
C10_Witness ==
    /\ Len(dispatches) >= 2
    /\ \A i \in 1..2 :
          /\ dispatches[i].docs = <<>>
          /\ dispatches[i].pc = "done"
          /\ dispatches[i].conns = 0

C12_ReceiveNeverBlocked ==
    \A c \in Consumers :
        (proc = "running" /\ consumer[c] = "receiving" /\ received < MaxMsgs)
            => ENABLED ReceiveMsg(c)

\* a conversion task waits on the channel, its consumer is back at the
\* receive call and more messages are to come
C12_Witness ==
    /\ proc = "running"
    /\ tasks # {}
    /\ received < MaxMsgs
    /\ \A c \in Consumers : consumer[c] = "receiving"

RECURSIVE SumAccepted(_)
SumAccepted(n) ==
    IF n = 0 THEN 0 ELSE Len(dispatches[n].accepted) + SumAccepted(n - 1)

\* C14: once every dispatch has completed, sent equals the number of submits
\* the backend accepted, over all dispatches (no increment is lost).
C14_NoLostIncrement ==
    (\A i \in DOMAIN dispatches : dispatches[i].pc = "done")
        => esSent = SumAccepted(Len(dispatches))

\* C15: in every dispatch the accepted documents are, in order, the first
\* documents of the batch as the aggregator appended them, and the document
\* submitted next is the one right after them, whatever was rejected before;
\* a completed dispatch has had the whole batch accepted in batch order.
C15_SubmitsInBatchOrder ==
    \A i \in DOMAIN dispatches :
        LET d == dispatches[i] IN
        /\ Len(d.accepted) <= Len(d.docs)
        /\ d.accepted = SubSeq(d.docs, 1, Len(d.accepted))
        /\ d.pc = "index" => Len(d.accepted) = d.idx - 1
        /\ d.pc = "inc" => Len(d.accepted) = d.idx
        /\ d.pc = "done" => d.accepted = d.docs

\* a batch of two documents was accepted in order although a submit failed
C15_Witness ==
    \E i \in DOMAIN dispatches :
        LET d == dispatches[i] IN
        /\ d.pc = "done"
        /\ Len(d.docs) = 2
        /\ d.fails >= 1
        /\ d.accepted = d.docs

\* C16: a document is submitted again through a session made from the
\* connection that reconnect returned.
C16_ResendUsesNewConnection ==
    [][ \A i \in DOMAIN dispatches :
          ( /\ dispatches[i].pc = "index"
            /\ dispatches[i].resend
            /\ dispatches'[i] # dispatches[i] )
          => dispatches[i].indexer = dispatches[i].client ]_vars

\* the documents the aggregator holds or has handed over, in order
RECURSIVE HandedOver(_)
HandedOver(n) ==
    IF n = 0 THEN <<>> ELSE HandedOver(n - 1) \o dispatches[n].docs

Occurrences(q, x) == Cardinality({k \in DOMAIN q : q[k] = x})

\* C17: every document the aggregator has taken is exactly once in the open
\* batch or a dispatched batch, and no other document is; every step that
\* spawns a dispatch hands over the open batch (with the document just
\* appended) once and leaves an empty open batch; the documents of a
\* dispatched batch never change.
C17_NoDocumentLostOrDuplicated ==
    /\ [](\A x \in Docs :
            Occurrences(batch \o HandedOver(Len(dispatches)), x)
                = (IF x <= received /\ x \notin tasks THEN 1 ELSE 0))
    /\ [][ /\ \A i \in DOMAIN dispatches :
                dispatches'[i].docs = dispatches[i].docs
           /\ Len(dispatches') <= Len(dispatches) + 1
           /\ Len(dispatches') = Len(dispatches) + 1
                => ( /\ batch' = <<>>
                     /\ Last(dispatches').docs =
                          (IF ReceiveStep
                           THEN Append(batch, CHOOSE t \in tasks : t \notin tasks')
                           ELSE batch) ) ]_vars

\* one document has been handed over in a batch, a later one is in the open
\* batch, and the first batch is being submitted
C17_Witness ==
    /\ batch = <<2>>
    /\ \E i \in DOMAIN dispatches :
          dispatches[i].docs = <<1>> /\ dispatches[i].pc = "inc"

\* C18: whatever the dispatches are doing (submitting, failing, retrying),
\* the aggregator can take any waiting conversion task's document while the
\* process runs, and under fair scheduling every waiting task is received
\* unless the process ends first. (Len(dispatches) = MaxDispatches is the
\* bound of the model on spawned dispatches.)
C18_AggregatorNeverBlocked ==
    /\ [](\A t \in tasks :
            (proc = "running" /\ Len(dispatches) < MaxDispatches)
                => ENABLED AggReceive(t))
    /\ []((proc = "running" /\ elapsed >= BatchTimeoutSec
                            /\ Len(dispatches) < MaxDispatches)
                => ENABLED AggTimeout)
    /\ \A t \in Docs :
          (t \in tasks) ~> ( \/ t \notin tasks
                             \/ proc # "running"
                             \/ Len(dispatches) = MaxDispatches )

\* the aggregator has taken document 2 while the dispatch of document 1 is
\* about to resend after a rejected submit
C18_Witness ==
    /\ batch = <<2>>
    /\ \E i \in DOMAIN dispatches :
          /\ dispatches[i].docs = <<1>>
          /\ dispatches[i].pc = "index"
          /\ dispatches[i].resend

AllConsumersTerminated == \A c \in Consumers : consumer[c] = "terminated"

\* C20: run returns only when every consumer has terminated, it can return
\* as soon as the last one has (whatever the open batch, the waiting
\* conversion tasks and the dispatches hold) and under fair scheduling it
\* does unless the process is ended first; the return leaves the pipeline as
\* it was and no step follows it, so what was received and not yet
\* submitted is never submitted.
C20_ReturnAfterLastConsumer ==
    /\ [][ (proc = "running" /\ proc' = "returned")
              => ( /\ AllConsumersTerminated
                   /\ UNCHANGED <<bus, aggregator, dispatches, esSent>> ) ]_vars
    /\ []((proc = "running" /\ AllConsumersTerminated) => ENABLED RunReturns)
    /\ (proc = "running" /\ AllConsumersTerminated) ~> (proc # "running")
    /\ [][ proc # "returned" ]_vars

\* run has returned with a document in the open batch and a dispatch that
\* has not submitted its document
C20_Witness ==
    /\ proc = "returned"
    /\ batch # <<>>
    /\ esSent = 0
    /\ \E i \in DOMAIN dispatches :
          dispatches[i].pc = "index" /\ dispatches[i].docs # <<>>

\* C13: the document a conversion task puts on the ingress channel holds
\* the three reserved fields, whatever the bytes of the message.
C13_ReservedFieldsPresent ==
    task.pc = "sent" => Reserved \subseteq DOMAIN task.payload

\* C19: for an object body, every decoded top-level field is in the document
\* with its decoded value (also under a reserved name) and the reserved
\* fields the body does not name keep their values; when the decode returns
\* an error the document is exactly the three reserved fields; in both cases
\* the task can put the document on the channel.
C19_DecodedFieldsWin ==
    /\ (task.pc \in {"decoded", "sent"} /\ task.body.kind = "object") =>
          /\ \A k \in DOMAIN task.body.fields :
                k \in DOMAIN task.payload /\ task.payload[k] = task.body.fields[k]
          /\ DOMAIN task.payload = Reserved \cup DOMAIN task.body.fields
          /\ \A k \in Reserved \ DOMAIN task.body.fields :
                task.payload[k] = newPayload(Text(task.body), task.subject)[k]
    /\ (task.pc \in {"decoded", "sent"} /\ UnmarshalErr(task.body)) =>
          task.payload = newPayload(Text(task.body), task.subject)
    /\ task.pc = "decoded" => ENABLED TaskSend

\* the body {"user":"x","@raw_msg":"y"} has been decoded and sent: the
\* document's @raw_msg is "y"
C19_Witness ==
    /\ task.pc = "sent"
    /\ task.body.kind = "object"
    /\ DOMAIN task.body.fields = {"user", rawMsgKey}
    /\ task.payload[rawMsgKey] = "y"
    /\ task.payload["user"] = "x"

====
